---------------------------- MODULE Spec2Model ----------------------------
(***************************************************************************)
(* Model of src/app.py (VisuaLex): the Flask handlers create_norma,        *)
(* extract_article, brocardi_info, get_history and export_pdf, the three   *)
(* cachetools.TTLCache memoizers in front of them, the history list and    *)
(* the sys_op driver list.                                                 *)
(*                                                                         *)
(* Every request is served on its own thread (Flask's development server   *)
(* is threaded), so a handler is a sequence of steps, one per access to    *)
(* shared state, and steps of different requests interleave freely.        *)
(* The module has no lock anywhere: @cached is used without lock=.         *)
(***************************************************************************)
EXTENDS Naturals, Sequences, FiniteSets, TLC

(***************************************************************************)
(* Bounds.  MaxSize and TTL stand for maxsize=100 and ttl=600 of           *)
(* src/app.py:16-18, scaled down so that a full cache and an expired       *)
(* entry are reachable; the clock counts in the same unit as TTL.          *)
(***************************************************************************)
NumReq == 2
MaxSize == 2
TTL == 2
MaxTime == 2
\* The cache uses of a sequential run.
MaxUses == 4

\* now: the clock; caches: the three TTLCaches; history: the history list;
\* req: the requests in flight and answered; route: the endpoint with a
\* memoized function the requests of a run go to (the three handlers share no
\* state with one another, so a run exercises one of them).
\* uses and evicted are history variables: the number of cache uses (a value
\* returned from a cache, or stored in one) so far, and the live entries the
\* latest store pushed out.
VARIABLES now, caches, history, req, route, uses, evicted

\* drivers: the list sys_op.drivers; live: the driver handles created and not
\* yet closed; files: the paths that exist on disk; exp: the export_pdf
\* requests.
VARIABLES drivers, live, files, exp

cacheVars == <<now, caches, history, req, uses, evicted>>

exportVars == <<drivers, live, files, exp>>

vars == <<cacheVars, route, exportVars>>

Requests == 1..NumReq

CacheNames == {"norma", "article", "brocardi"}

-----------------------------------------------------------------------------
(* Request bodies: a JSON object is a sequence of <<field, value>> pairs.  *)

Has(data, f) == \E i \in 1..Len(data) : data[i][1] = f

Get(data, f) == data[CHOOSE i \in 1..Len(data) : data[i][1] = f][2]

\* The order of Python's str comparison on the field names in use.
FieldOrder ==
    <<"act_number", "act_type", "article", "date", "urn", "version", "version_date">>

Rank(f) == CHOOSE i \in 1..Len(FieldOrder) : FieldOrder[i] = f

Range(s) == {s[i] : i \in 1..Len(s)}

RECURSIVE InsertSorted(_, _)
InsertSorted(p, s) ==
    IF s = <<>> THEN <<p>>
    ELSE IF Rank(p[1]) <= Rank(Head(s)[1]) THEN <<p>> \o s
    ELSE <<Head(s)>> \o InsertSorted(p, Tail(s))

RECURSIVE SortPairs(_)
SortPairs(s) == IF s = <<>> THEN <<>> ELSE InsertSorted(Head(s), SortPairs(Tail(s)))

\* Faulty variant: the key is made of the required fields only, without the
\* version date.
convert_required(data) ==
    SortPairs(SelectSeq(data, LAMBDA p : p[1] # "version_date"))

\* Faulty variant: the pairs are taken in the order of the body.
convert_unsorted(data) == data

\* tuple(sorted(data.items()))
convert_to_hashable(data) == SortPairs(data)


-----------------------------------------------------------------------------
(* cachetools.TTLCache(maxsize, ttl): a cache is the sequence of its links  *)
(* in least-recently-used order (head = next to be evicted).  An entry      *)
(* holds key, value and expires; ins (the time it was inserted), used (the  *)
(* number of the cache use that last returned or stored it) and reads (how  *)
(* often it was returned) are history fields no operation reads.            *)

NoValue == [by |-> 0, res |-> <<>>]

HasKey(c, k) == \E i \in 1..Len(c) : c[i].key = k

Entry(c, k) == c[CHOOSE i \in 1..Len(c) : c[i].key = k]

Without(c, k) == SelectSeq(c, LAMBDA e : e.key # k)

\* Faulty variant: an entry is still returned at the very time it expires.
ExpiredLate(e, t) == e.expires < t

\* TTLCache.__getitem__: expired = not (timer() < link.expires)
Expired(e, t) == ~(t < e.expires)

\* TTLCache.expire(time): drop every entry whose time has come.
Expire(c, t) == SelectSeq(c, LAMBDA e : ~Expired(e, t))

\* cache[k] does not raise KeyError: the key has a link that has not expired.
Live(c, k, t) == HasKey(c, k) /\ ~Expired(Entry(c, k), t)

\* Faulty variant: a lookup leaves the order alone (first in, first out).
TouchNone(c, k) == c

\* TTLCache.__getlink: a looked-up key becomes the most recently used one
\* (also when its link turns out to be expired).
Touch(c, k) == IF HasKey(c, k) THEN Append(Without(c, k), Entry(c, k)) ELSE c

\* Cache.__setitem__'s "while currsize + size > maxsize: popitem()" for a new
\* key: TTLCache.popitem removes the head of the LRU order.
RECURSIVE MakeRoom(_)
MakeRoom(c) == IF Len(c) + 1 > MaxSize THEN MakeRoom(Tail(c)) ELSE c

\* TTLCache.__setitem__: expire, make room for a new key, store the value and
\* link the key as most recently used with expires = time + ttl.
SetItem(c, k, v, t) ==
    LET c1 == Expire(c, t)
        c2 == IF HasKey(c1, k) THEN Without(c1, k) ELSE MakeRoom(c1)
    IN  Append(c2, [key |-> k, value |-> v, expires |-> t + TTL,
                    ins |-> t, used |-> uses + 1, reads |-> 0])

\* History: the entry of k was returned by the use that comes next.
Read(c, k) ==
    [i \in 1..Len(c) |->
        IF c[i].key = k THEN [c[i] EXCEPT !.used = uses + 1, !.reads = @ + 1]
        ELSE c[i]]

\* History: the live entries of c that a store of k at time t pushes out.
Evicted(c, k, t) ==
    SelectSeq(Expire(c, t), LAMBDA e : e.key # k /\ ~HasKey(SetItem(c, k, NoValue, t), e.key))

-----------------------------------------------------------------------------
(* The collaborators in tools/, by their contracts.                         *)

\* Norma(tipo_atto="costituzione", url=urn): a value type, equal when its
\* fields are equal.
Norma(urn) == <<"costituzione", urn>>

\* NormaVisitata.to_dict(): the serialized fields of the reference.
to_dict(nv) == nv.res

\* NormaVisitata.get_urn(): the canonical identifier, built from the fields of
\* the reference alone; the segment of an absent version date is left out.
get_urn(nv) ==
    <<"urn", "nir", Get(nv.res, "act_type"), Get(nv.res, "date"),
      Get(nv.res, "act_number"), "art", Get(nv.res, "article"),
      Get(nv.res, "version")>>
    \o (IF Has(nv.res, "version_date") THEN <<Get(nv.res, "version_date")>> ELSE <<>>)

RequiredFields == <<"act_type", "date", "act_number", "article", "version">>

-----------------------------------------------------------------------------
(* Requests.                                                                *)

NormaData(article) ==
    << <<"act_type", "legge">>, <<"date", "1990">>, <<"act_number", "9">>,
       <<"article", article>>, <<"version", "vigente">> >>

N1 == NormaData("1")

\* The pairs of N1 in another order.
N2 == << <<"version", "vigente">>, <<"article", "1">>, <<"act_number", "9">>,
         <<"date", "1990">>, <<"act_type", "legge">> >>

\* No version: create_norma_instance raises KeyError.
N3 == << <<"act_type", "legge">>, <<"date", "1990">>, <<"act_number", "9">>,
         <<"article", "1">> >>

\* N1 with an explicit version date.
N4 == N1 \o << <<"version_date", "2000">> >>

\* The pairs of N4 in another order.
N5 == << <<"version_date", "2000">> >> \o N2

\* The request bodies of the runs on the key of the resolution cache.
KeyInputs == {N1, N2, N4, N5, NormaData("2")}

A1 == << <<"urn", "u1">>, <<"article", "1">> >>

A2 == << <<"urn", "u1">>, <<"article", "">> >>

\* No article: extract_article raises KeyError before the cache is touched.
A3 == << <<"urn", "u1">> >>

B1 == << <<"urn", "u1">> >>

B2 == << <<"urn", "u2">> >>

\* No urn: brocardi_info raises KeyError before the cache is touched.
B3 == <<>>

Routes == {"create_norma", "extract_article", "brocardi_info"}

\* The request bodies of the concurrent runs.
Inputs(kind) ==
    CASE kind = "create_norma" -> {N1, N2, N3}
      [] kind = "extract_article" -> {A1, A2, A3}
      [] OTHER -> {B1, B2, B3}

Articles == {"1", "2", "3", "4"}

Urns == {"u1", "u2", "u3", "u4"}

\* The request bodies of the sequential runs: more keys than a cache holds.
SeqInputs(kind) ==
    CASE kind = "create_norma" -> {NormaData(a) : a \in Articles} \cup {N3}
      [] kind = "extract_article" ->
           {<< <<"urn", "u1">>, <<"article", a>> >> : a \in Articles} \cup {A2, A3}
      [] OTHER -> {<< <<"urn", u>> >> : u \in Urns} \cup {B3}

\* The cache a handler goes through.
CacheOf(kind) ==
    CASE kind = "create_norma" -> "norma"
      [] kind = "extract_article" -> "article"
      [] OTHER -> "brocardi"

\* The fields a handler reads before it calls its memoized function.
HandlerFields(kind) ==
    CASE kind = "extract_article" -> <<"urn", "article">>
      [] kind = "brocardi_info" -> <<"urn">>
      [] OTHER -> <<>>

HasAll(data, fs) == \A i \in 1..Len(fs) : Has(data, fs[i])

\* The key= argument of each @cached.
KeyOf(kind, data) ==
    CASE kind = "create_norma" -> convert_to_hashable(data)
      [] kind = "extract_article" -> <<Norma(Get(data, "urn")), Get(data, "article")>>
      [] OTHER -> <<Get(data, "urn")>>

\* An export_pdf request: pc is its place in the handler; urn its argument;
\* path the local pdf_path; drv the local driver (0: none); out, resp the
\* answer.  History fields: made (the handle it created, 0: none), closes
\* and renders (its calls of close_driver and extract_pdf), why (the way it
\* left the try block), after (the requests answered before it arrived).
ExpIdle == [pc |-> "idle", urn |-> "", path |-> <<>>, drv |-> 0, made |-> 0,
            closes |-> 0, renders |-> 0, out |-> "none", resp |-> <<>>,
            why |-> "none", after |-> {}]

\* A request: pc is its place in the handler; kind, data its endpoint and
\* body; key, val the cache key and the value of the memoized call; hit
\* whether cache[k] returned; at the time of that lookup and seen the
\* insertion time of the entry it returned; retry whether, at that lookup,
\* an earlier request for the same key had been answered with an error; out,
\* resp the answer; appended the number of history entries the request added;
\* fields the pairs of the body as a set, kept after the answer.
Idle == [pc |-> "idle", kind |-> "none", data |-> <<>>, fields |-> {}, key |-> <<>>,
         val |-> NoValue, hit |-> FALSE, seen |-> 0, at |-> 0, retry |-> FALSE,
         out |-> "none", resp |-> <<>>, appended |-> 0]

\* The handler returns jsonify(...): the request is answered.
Answer(q, out, resp) ==
    [q EXCEPT !.pc = "done", !.out = out, !.resp = resp, !.data = <<>>,
              !.seen = 0, !.at = 0]

\* The module's globals after import, and no request yet.
InitState ==
    /\ now = 0
    /\ caches = [c \in CacheNames |-> <<>>]
    /\ history = <<>>
    /\ req = [r \in Requests |-> Idle]
    /\ uses = 0
    /\ evicted = <<>>
    /\ drivers = <<>>
    /\ live = {}
    /\ files = {}
    /\ exp = [r \in Requests |-> ExpIdle]

Init == InitState /\ route \in Routes

-----------------------------------------------------------------------------
(* The handlers, one action per step.  A step is the code between two       *)
(* accesses to shared state.                                                *)

\* The except branch of a handler: jsonify({'error': str(e)}).
ErrorPayload(msg) == <<"error", msg>>

\* Faulty variant: the fields are read outside the try block and the
\* KeyError leaves the handler.
BadRequestUnhandled(r, data) ==
    /\ req[r].pc = "idle"
    /\ ~HasAll(data, HandlerFields(route))
    /\ req' = [req EXCEPT ![r] = Answer([@ EXCEPT !.kind = route], "unhandled", <<>>)]
    /\ UNCHANGED <<now, caches, history, route, uses, evicted, exportVars>>

\* data['urn'] / data['article'] raise KeyError: the except branch answers.
BadRequest(r, data) ==
    /\ req[r].pc = "idle"
    /\ ~HasAll(data, HandlerFields(route))
    /\ req' = [req EXCEPT ![r] =
                  Answer([@ EXCEPT !.kind = route], "error", ErrorPayload("KeyError"))]
    /\ UNCHANGED <<now, caches, history, route, uses, evicted, exportVars>>

\* get_history: [norma.to_dict() for norma in history]
HistoryList(h) == [i \in 1..Len(h) |-> to_dict(h[i])]

GetHistory(r) ==
    /\ req[r].pc = "idle"
    /\ route = "create_norma"
    /\ req' = [req EXCEPT ![r] =
                  Answer([@ EXCEPT !.kind = "get_history"], "ok", HistoryList(history))]
    /\ UNCHANGED <<now, caches, history, route, uses, evicted, exportVars>>

\* get_history: a to_dict() of the list comprehension raises; the except
\* branch answers with the error and status 500.
GetHistoryFail(r) ==
    /\ req[r].pc = "idle"
    /\ route = "create_norma"
    /\ history # <<>>
    /\ req' = [req EXCEPT ![r] =
                  Answer([@ EXCEPT !.kind = "get_history"], "error", ErrorPayload("to_dict"))]
    /\ UNCHANGED <<now, caches, history, route, uses, evicted, exportVars>>

\* Faulty variant: the wrapper never returns from the cache.
AfterLookupMiss(q, c, k, t) == [q EXCEPT !.pc = "compute", !.key = k, !.at = t]

\* What the wrapper of @cached does with the outcome of cache[k]: return the
\* value, or go on to call the function.
AfterLookup(q, c, k, t) ==
    IF Live(c, k, t)
    THEN [q EXCEPT !.pc = "post", !.key = k, !.val = Entry(c, k).value,
                   !.hit = TRUE, !.seen = Entry(c, k).ins, !.at = t]
    ELSE [q EXCEPT !.pc = "compute", !.key = k, !.at = t,
                   !.retry = \E r2 \in Requests :
                               /\ req[r2].pc = "done" /\ req[r2].out = "error"
                               /\ req[r2].kind = q.kind /\ req[r2].key = k]

\* The handler up to the first half of the wrapper of @cached:
\* k = key(...); try: return cache[k].
Lookup(r, data) ==
    /\ req[r].pc = "idle"
    /\ HasAll(data, HandlerFields(route))
    /\ LET cn == CacheOf(route)
           k  == KeyOf(route, data)
       IN  /\ req' = [req EXCEPT ![r] =
                         AfterLookup([@ EXCEPT !.kind = route, !.data = data,
                                               !.fields = Range(data)],
                                     caches[cn], k, now)]
           /\ caches' = [caches EXCEPT ![cn] =
                            IF Live(@, k, now) THEN Read(Touch(@, k), k) ELSE Touch(@, k)]
           /\ uses' = IF Live(caches[cn], k, now) THEN uses + 1 ELSE uses
    /\ UNCHANGED <<now, history, route, evicted, exportVars>>

\* create_norma_instance(data): the reference built from data['act_type'],
\* ['date'], ['act_number'], ['article'], ['version'] and
\* data.get('version_date'), written as its fields in the order of their
\* names.
InstanceFields == <<"act_number", "act_type", "article", "date", "version">>

create_norma_instance(data) ==
    [i \in 1..Len(InstanceFields) |-> <<InstanceFields[i], Get(data, InstanceFields[i])>>]
    \o (IF Has(data, "version_date")
        THEN << <<"version_date", Get(data, "version_date")>> >>
        ELSE <<>>)

\* The results the memoized function can return for a request.
Results(r) ==
    CASE req[r].kind = "create_norma" ->
           IF HasAll(req[r].data, RequiredFields)
           THEN {[by |-> r, res |-> create_norma_instance(req[r].data)]}
           ELSE {}
      [] req[r].kind = "extract_article" ->
           IF Get(req[r].data, "article") = ""
           THEN {[by |-> r, res |-> <<"">>]}
           ELSE {[by |-> r, res |-> <<"text">>]}
      [] OTHER -> {[by |-> r, res |-> <<"position", "info", "link">>],
                   [by |-> r, res |-> <<"", "", "">>]}

\* Faulty variant: extract_html_article is called for every article
\* designator, the empty one included.
CanRaiseInvoked(r) ==
    CASE req[r].kind = "create_norma" -> ~HasAll(req[r].data, RequiredFields)
      [] OTHER -> TRUE

\* Whether the memoized function can raise for a request.
CanRaise(r) ==
    CASE req[r].kind = "create_norma" -> ~HasAll(req[r].data, RequiredFields)
      [] req[r].kind = "extract_article" -> Get(req[r].data, "article") # ""
      [] OTHER -> TRUE

\* v = func(*args, **kwargs) returns.
ComputeOk(r) ==
    /\ req[r].pc = "compute"
    /\ \E v \in Results(r) :
         req' = [req EXCEPT ![r] = [@ EXCEPT !.pc = "store", !.val = v]]
    /\ UNCHANGED <<now, caches, history, route, uses, evicted, exportVars>>

\* Faulty variant: a failure is stored like a result.
CacheOnFailureStore(c, k, t) == SetItem(c, k, NoValue, t)

\* The cache after a call of the memoized function has raised: the wrapper
\* has no except clause around func, so nothing is stored.
CacheOnFailure(c, k, t) == c

\* v = func(*args, **kwargs) raises: the exception leaves the wrapper and the
\* handler's except branch answers.
ComputeFail(r) ==
    /\ req[r].pc = "compute"
    /\ CanRaise(r)
    /\ req' = [req EXCEPT ![r] = Answer(@, "error", ErrorPayload("raised"))]
    /\ caches' = [caches EXCEPT ![CacheOf(req[r].kind)] =
                      CacheOnFailure(@, req[r].key, now)]
    /\ UNCHANGED <<now, history, route, uses, evicted, exportVars>>

\* The wrapper of @cached, second half: cache[k] = v; return v.
Store(r) ==
    /\ req[r].pc = "store"
    /\ caches' = [caches EXCEPT ![CacheOf(req[r].kind)] =
                      SetItem(@, req[r].key, req[r].val, now)]
    /\ req' = [req EXCEPT ![r] = [@ EXCEPT !.pc = "post"]]
    /\ uses' = uses + 1
    /\ evicted' = Evicted(caches[CacheOf(req[r].kind)], req[r].key, now)
    /\ UNCHANGED <<now, history, route, exportVars>>

\* Faulty variant: an instance already in the history is not appended again.
AppendHistoryOnce(h, nv, hit) ==
    IF \E i \in 1..Len(h) : h[i] = nv THEN h ELSE Append(h, nv)

\* history.append(normavisitata), whether or not the instance came from the
\* cache.
AppendHistory(h, nv, hit) == Append(h, nv)

\* create_norma after create_norma_instance: to_dict(), .tree and the append
\* (lines 59-63).  The answer is a later step: other requests run between
\* the two.
PostNorma(r) ==
    /\ req[r].pc = "post"
    /\ req[r].kind = "create_norma"
    /\ history' = AppendHistory(history, req[r].val, req[r].hit)
    /\ req' = [req EXCEPT ![r] =
                  [@ EXCEPT !.pc = "answer",
                            !.appended = Len(history') - Len(history)]]
    /\ UNCHANGED <<now, caches, route, uses, evicted, exportVars>>

\* Faulty variant: history.append comes before to_dict() and .tree.
PostNormaFailAppended(r) ==
    /\ req[r].pc = "post"
    /\ req[r].kind = "create_norma"
    /\ history' = Append(history, req[r].val)
    /\ req' = [req EXCEPT ![r] =
                  Answer([@ EXCEPT !.appended = 1], "error", ErrorPayload("to_dict"))]
    /\ UNCHANGED <<now, caches, route, uses, evicted, exportVars>>

\* normavisitata.to_dict() or normavisitata.tree raises: nothing is appended.
PostNormaFail(r) ==
    /\ req[r].pc = "post"
    /\ req[r].kind = "create_norma"
    /\ req' = [req EXCEPT ![r] = Answer(@, "error", ErrorPayload("to_dict"))]
    /\ UNCHANGED <<now, caches, history, route, uses, evicted, exportVars>>

\* return jsonify({norma_data, tree, urn}) (lines 66-70).
AnswerNorma(r) ==
    /\ req[r].pc = "answer"
    /\ req' = [req EXCEPT ![r] =
                  Answer(@, "ok", <<to_dict(req[r].val), get_urn(req[r].val)>>)]
    /\ UNCHANGED <<now, caches, history, route, uses, evicted, exportVars>>

\* normavisitata.get_urn() or jsonify(...) of the answer raises: the instance
\* has been appended already, and the except branch answers.
PostNormaFailLate(r) ==
    /\ req[r].pc = "answer"
    /\ req' = [req EXCEPT ![r] = Answer(@, "error", ErrorPayload("get_urn"))]
    /\ UNCHANGED <<now, caches, history, route, uses, evicted, exportVars>>

\* brocardi_info: {...} if position else None
BrocardiPayload(v) == IF v.res[1] = "" THEN <<>> ELSE v.res

\* extract_article and brocardi_info answer with the value.
PostOther(r) ==
    /\ req[r].pc = "post"
    /\ req[r].kind \in {"extract_article", "brocardi_info"}
    /\ req' = [req EXCEPT ![r] =
                  Answer(@, "ok", IF req[r].kind = "brocardi_info"
                                  THEN BrocardiPayload(req[r].val)
                                  ELSE req[r].val.res)]
    /\ UNCHANGED <<now, caches, history, route, uses, evicted, exportVars>>

\* time.monotonic() advances.
Tick ==
    /\ now < MaxTime
    /\ now' = now + 1
    /\ UNCHANGED <<caches, history, req, route, uses, evicted, exportVars>>

\* The steps of a request once it has arrived.
Step(r) ==
    \/ ComputeOk(r)
    \/ ComputeFail(r)
    \/ Store(r)
    \/ PostNorma(r)
    \/ PostNormaFail(r)
    \/ AnswerNorma(r)
    \/ PostNormaFailLate(r)
    \/ PostOther(r)

\* Concurrent requests to one endpoint.
Next ==
    \/ Tick
    \/ \E r \in Requests :
         \/ \E data \in Inputs(route) : BadRequest(r, data)
         \/ \E data \in Inputs(route) : Lookup(r, data)
         \/ GetHistory(r)
         \/ GetHistoryFail(r)
         \/ Step(r)

Spec == Init /\ [][Next]_vars

\* The thread of an answered request takes the next request.
Recycle(r) ==
    /\ req[r].pc = "done"
    /\ uses < MaxUses
    /\ req' = [req EXCEPT ![r] = Idle]
    /\ UNCHANGED <<now, caches, history, route, uses, evicted, exportVars>>

\* One request after the other.
NextSeq ==
    \/ Tick
    \/ \E data \in SeqInputs(route) : BadRequest(1, data)
    \/ \E data \in SeqInputs(route) : Lookup(1, data)
    \/ GetHistory(1)
    \/ GetHistoryFail(1)
    \/ Step(1)
    \/ Recycle(1)

SpecSeq == Init /\ [][NextSeq]_vars

\* Concurrent create_norma requests whose bodies differ in the order of
\* their fields, in the version date and in the article.
InitKey == InitState /\ route = "create_norma"

NextKey ==
    \E r \in Requests :
        \/ \E data \in KeyInputs : Lookup(r, data)
        \/ ComputeOk(r)
        \/ Store(r)
        \/ PostNorma(r)
        \/ PostNormaFail(r)
        \/ AnswerNorma(r)
        \/ PostNormaFailLate(r)

SpecKey == InitKey /\ [][NextKey]_vars

\* The request bodies of the runs on the urn: the body whose entry was
\* pushed out, with its pairs in another order, and the same with a version
\* date.
UrnInputs == {N2, N4}

ArticleSeq == <<"1", "2", "3", "4">>

\* The bodies of MaxSize + 1 create_norma requests for different articles.
SeedBodies == [i \in 1..(MaxSize + 1) |-> NormaData(ArticleSeq[i])]

\* The reference of the i-th of them and the cache entry its store made.
SeedValue(i) == [by |-> 1, res |-> create_norma_instance(SeedBodies[i])]

SeedEntry(i) ==
    [key |-> KeyOf("create_norma", SeedBodies[i]), value |-> SeedValue(i),
     expires |-> TTL, ins |-> 0, used |-> i, reads |-> 0]

\* The state after thread 1 has served these requests one after the other at
\* time 0: the cache holds all but the first, whose entry the last store
\* pushed out; the history holds all of them.
InitUrn ==
    /\ now = 0
    /\ caches = [c \in CacheNames |->
                    IF c = "norma" THEN [i \in 1..MaxSize |-> SeedEntry(i + 1)]
                    ELSE <<>>]
    /\ history = [i \in 1..(MaxSize + 1) |-> SeedValue(i)]
    /\ req = [r \in Requests |-> Idle]
    /\ uses = MaxSize + 1
    /\ evicted = <<SeedEntry(1)>>
    /\ route = "create_norma"
    /\ drivers = <<>>
    /\ live = {}
    /\ files = {}
    /\ exp = [r \in Requests |-> ExpIdle]

\* Concurrent create_norma requests after these.
NextUrn ==
    \/ Tick
    \/ \E r \in Requests :
         \/ \E data \in UrnInputs : Lookup(r, data)
         \/ ComputeOk(r)
         \/ Store(r)
         \/ PostNorma(r)
         \/ PostNormaFail(r)
         \/ AnswerNorma(r)
         \/ PostNormaFailLate(r)

SpecUrn == InitUrn /\ [][NextUrn]_vars


-----------------------------------------------------------------------------
(* export_pdf.  Paths are records: abs (absolute or relative to the working *)
(* directory), dir (the directory, for an absolute path) and name.          *)

X1 == << <<"urn", "u1">> >>

X2 == << <<"urn", "u2">> >>

\* A URN that urn_to_filename turns into no filename.
X3 == << <<"urn", "bad">> >>

\* No urn: data['urn'] raises KeyError.
X4 == <<>>

ExportInputs == {X1, X2, X3, X4}

\* urngenerator.urn_to_filename(urn): the filename derived from the URN,
\* empty for a URN that has none.
urn_to_filename(urn) ==
    CASE urn = "u1" -> "u1.pdf"
      [] urn = "u2" -> "u2.pdf"
      [] OTHER -> ""

\* os.path.join(os.getcwd(), "download", p): an absolute last component
\* replaces what comes before it.
JoinDownload(p) ==
    IF p.abs THEN p ELSE [abs |-> TRUE, dir |-> "download", name |-> p.name]

\* A relative path, as the operating system resolves it.
Resolve(p) == IF p.abs THEN p ELSE [abs |-> TRUE, dir |-> "cwd", name |-> p.name]

\* pdf_path = os.path.join(os.getcwd(), "download", filename)
DerivedPath(filename) == JoinDownload([abs |-> FALSE, dir |-> "", name |-> filename])

\* pdfextractor.extract_pdf(driver, urn) on success: the path of the rendered
\* file, which it has saved in the download directory under the derived name.
extract_pdf(urn) == [abs |-> TRUE, dir |-> "download", name |-> urn_to_filename(urn)]

\* url_for('downloaded_file', filename=filename)
url_for(filename) == <<"download", filename>>

\* Faulty variant: os.path.exists never finds the file.
ExistsNever(fs, p) == FALSE

\* os.path.exists(pdf_path)
Exists(fs, p) == Resolve(p) \in fs

\* The handle a new driver gets.
NewHandle == 1 + Cardinality({r \in Requests : exp[r].made # 0})

\* The jump to the except branch (or the return) and so into finally.
Leave(q, out, resp, why) ==
    [q EXCEPT !.pc = "finally", !.out = out, !.resp = resp, !.why = why]

\* Lines 152-164: the request up to os.path.exists(pdf_path).
AfterBegin(q, data) ==
    IF ~Has(data, "urn") THEN Leave(q, "error", ErrorPayload("KeyError"), "nourn")
    ELSE LET urn == Get(data, "urn")
             filename == urn_to_filename(urn)
         IN  IF filename = ""
             THEN Leave([q EXCEPT !.urn = urn], "error", ErrorPayload("Invalid URN"), "invalid")
             ELSE IF Exists(files, DerivedPath(filename))
             THEN Leave([q EXCEPT !.urn = urn, !.path = DerivedPath(filename)],
                        "ok", url_for(filename), "existing")
             ELSE [q EXCEPT !.pc = "check", !.urn = urn,
                            !.path = DerivedPath(filename)]

ExpBegin(r, data) ==
    /\ exp[r].pc = "idle"
    /\ exp' = [exp EXCEPT ![r] =
                  AfterBegin([@ EXCEPT !.after = {r2 \in Requests : exp[r2].pc = "done"}],
                             data)]
    /\ UNCHANGED <<cacheVars, route, drivers, live, files>>

\* if not sys_op.drivers:
AfterCheck(q, ds) == [q EXCEPT !.pc = IF ds = <<>> THEN "setup" ELSE "reuse"]

ExpCheck(r) ==
    /\ exp[r].pc = "check"
    /\ exp' = [exp EXCEPT ![r] = AfterCheck(@, drivers)]
    /\ UNCHANGED <<cacheVars, route, drivers, live, files>>

\* sys_op.setup_driver() on success: a new open handle h, listed in
\* sys_op.drivers.
setup_driver(ds, lv, h) == [drivers |-> Append(ds, h), live |-> lv \cup {h}]

\* driver = sys_op.setup_driver()
ExpSetup(r) ==
    /\ exp[r].pc = "setup"
    /\ drivers' = setup_driver(drivers, live, NewHandle).drivers
    /\ live' = setup_driver(drivers, live, NewHandle).live
    /\ exp' = [exp EXCEPT ![r] = [@ EXCEPT !.pc = "render", !.drv = NewHandle,
                                              !.made = NewHandle]]
    /\ UNCHANGED <<cacheVars, route, files>>

\* sys_op.setup_driver() raises: the driver cannot be started.
ExpSetupFail(r) ==
    /\ exp[r].pc = "setup"
    /\ exp' = [exp EXCEPT ![r] = Leave(@, "error", ErrorPayload("setup_driver"), "nodriver")]
    /\ UNCHANGED <<cacheVars, route, drivers, live, files>>

\* driver = sys_op.drivers[0]; IndexError when the list has been emptied
\* since the check.
AfterReuse(q, ds) ==
    IF ds = <<>> THEN Leave(q, "error", ErrorPayload("IndexError"), "nodriver")
    ELSE [q EXCEPT !.pc = "render", !.drv = ds[1]]

ExpReuse(r) ==
    /\ exp[r].pc = "reuse"
    /\ exp' = [exp EXCEPT ![r] = AfterReuse(@, drivers)]
    /\ UNCHANGED <<cacheVars, route, drivers, live, files>>

\* pdfextractor.extract_pdf(driver, urn) is called.
ExpRenderBegin(r) ==
    /\ exp[r].pc = "render"
    /\ exp' = [exp EXCEPT ![r] = [@ EXCEPT !.pc = "rendering", !.renders = @ + 1]]
    /\ UNCHANGED <<cacheVars, route, drivers, live, files>>

\* extract_pdf returns the path of the file it has saved; it needs a driver
\* that is still open.
ExpRenderOk(r) ==
    /\ exp[r].pc = "rendering"
    /\ exp[r].drv \in live
    /\ files' = files \cup {extract_pdf(exp[r].urn)}
    /\ exp' = [exp EXCEPT ![r] = [@ EXCEPT !.pc = "rename",
                                              !.path = extract_pdf(exp[r].urn)]]
    /\ UNCHANGED <<cacheVars, route, drivers, live>>

\* extract_pdf returns nothing (ValueError("Error generating PDF")) or raises.
ExpRenderFail(r) ==
    /\ exp[r].pc = "rendering"
    /\ exp' = [exp EXCEPT ![r] = Leave(@, "error", ErrorPayload("Error generating PDF"), "render")]
    /\ UNCHANGED <<cacheVars, route, drivers, live, files>>

\* os.rename(os.path.join(os.getcwd(), "download", pdf_path), pdf_path)
Rename(fs, p) == (fs \ {JoinDownload(p)}) \cup {Resolve(p)}

ExpRename(r) ==
    /\ exp[r].pc = "rename"
    /\ JoinDownload(exp[r].path) \in files
    /\ files' = Rename(files, exp[r].path)
    /\ exp' = [exp EXCEPT ![r] =
                  Leave(@, "ok", url_for(urn_to_filename(exp[r].urn)), "rendered")]
    /\ UNCHANGED <<cacheVars, route, drivers, live>>

\* os.rename raises OSError.
ExpRenameFail(r) ==
    /\ exp[r].pc = "rename"
    /\ exp' = [exp EXCEPT ![r] = Leave(@, "error", ErrorPayload("OSError"), "rename")]
    /\ UNCHANGED <<cacheVars, route, drivers, live, files>>

\* sys_op.close_driver(): every listed driver is closed and the list emptied.
close_driver(ds, lv) == [drivers |-> <<>>, live |-> lv \ Range(ds)]

\* Faulty variant: the driver is closed at the end of the try block only, so not
\* after an error.
ExpFinallyOnSuccess(r) ==
    /\ exp[r].pc = "finally"
    /\ IF exp[r].out = "ok"
       THEN /\ drivers' = close_driver(drivers, live).drivers
            /\ live' = close_driver(drivers, live).live
            /\ exp' = [exp EXCEPT ![r] = [@ EXCEPT !.pc = "done", !.closes = @ + 1]]
       ELSE /\ exp' = [exp EXCEPT ![r] = [@ EXCEPT !.pc = "done"]]
            /\ UNCHANGED <<drivers, live>>
    /\ UNCHANGED <<cacheVars, route, files>>

\* Faulty variant: the finally block returns an answer of its own.
ExpFinallyReturn(r) ==
    /\ exp[r].pc = "finally"
    /\ drivers' = close_driver(drivers, live).drivers
    /\ live' = close_driver(drivers, live).live
    /\ exp' = [exp EXCEPT ![r] = [@ EXCEPT !.pc = "done", !.closes = @ + 1,
                                              !.out = "ok", !.resp = <<"closed">>]]
    /\ UNCHANGED <<cacheVars, route, files>>

\* finally: sys_op.close_driver(); then the answer goes out.
ExpFinally(r) ==
    /\ exp[r].pc = "finally"
    /\ drivers' = close_driver(drivers, live).drivers
    /\ live' = close_driver(drivers, live).live
    /\ exp' = [exp EXCEPT ![r] = [@ EXCEPT !.pc = "done", !.closes = @ + 1]]
    /\ UNCHANGED <<cacheVars, route, files>>

\* Concurrent export_pdf requests.
NextExport ==
    \E r \in Requests :
        \/ \E data \in ExportInputs : ExpBegin(r, data)
        \/ ExpCheck(r)
        \/ ExpSetup(r)
        \/ ExpSetupFail(r)
        \/ ExpReuse(r)
        \/ ExpRenderBegin(r)
        \/ ExpRenderOk(r)
        \/ ExpRenderFail(r)
        \/ ExpRename(r)
        \/ ExpRenameFail(r)
        \/ ExpFinally(r)

InitExport == InitState /\ route = "export_pdf"

SpecExport == InitExport /\ [][NextExport]_vars

\* The five endpoints: concurrent requests to any one of them.
InitBoundary == InitState /\ route \in Routes \cup {"export_pdf"}

NextBoundary ==
    \/ route \in Routes /\ Next
    \/ route = "export_pdf" /\ NextExport

SpecBoundary == InitBoundary /\ [][NextBoundary]_vars

-----------------------------------------------------------------------------
(* Properties of the memoized handlers and of the history.                  *)

\* Request r makes its cache lookup in this step.
LookupStep(r) == req[r].pc = "idle" /\ req'[r].pc \in {"post", "compute"}

\* Cache c holds an entry for k that was inserted less than TTL before t.
FreshAt(c, k, t) == HasKey(c, k) /\ t < Entry(c, k).ins + TTL

\* C1 (single-flight): no two requests are ever computing the value of the
\* same key of the same memoized function at the same time.
C1_SingleFlight ==
    \A r1, r2 \in Requests :
        (/\ r1 # r2
         /\ req[r1].pc = "compute" /\ req[r2].pc = "compute"
         /\ req[r1].kind = req[r2].kind)
        => req[r1].key # req[r2].key

\* C4 (cache hit): a lookup that finds a fresh entry for its key returns the
\* stored value without calling the function, and a request served from the
\* cache never holds a value of its own computation.
C4_CacheHit ==
    [][\A r \in Requests :
         /\ (LookupStep(r) /\ FreshAt(caches[CacheOf(route)], req'[r].key, now))
            => /\ req'[r].pc = "post"
               /\ req'[r].hit
               /\ req'[r].val = Entry(caches[CacheOf(route)], req'[r].key).value
         /\ req'[r].hit => req'[r].val.by # r]_vars

\* A second create_norma with the same fields is answered from the entry the
\* first one stored.
C4_Witness ==
    \E r1, r2 \in Requests :
        /\ r1 # r2
        /\ req[r1].kind = "create_norma" /\ req[r2].kind = "create_norma"
        /\ req[r1].pc = "done" /\ req[r1].out = "ok" /\ ~req[r1].hit
        /\ req[r2].pc = "done" /\ req[r2].out = "ok" /\ req[r2].hit
        /\ req[r2].val.by = r1

\* C5 (expiry): a lookup made TTL or more after the entry of its key was
\* inserted does not return it, whatever reads came in between: it is a miss
\* and the function is called.
C5_Expiry ==
    [][\A r \in Requests :
         (/\ LookupStep(r)
          /\ HasKey(caches[CacheOf(route)], req'[r].key)
          /\ now >= Entry(caches[CacheOf(route)], req'[r].key).ins + TTL)
         => (req'[r].pc = "compute" /\ ~req'[r].hit)]_vars

\* A request is recomputing a key whose entry was read while fresh and was
\* TTL old or older at the lookup.
C5_Witness ==
    \E r \in Requests :
        /\ req[r].pc = "compute"
        /\ HasKey(caches[CacheOf(req[r].kind)], req[r].key)
        /\ LET e == Entry(caches[CacheOf(req[r].kind)], req[r].key)
           IN  e.ins + TTL <= req[r].at /\ e.reads >= 1

\* C6 (a failed computation is not cached): the step in which the memoized
\* function raises answers with an error and leaves every cache as it was,
\* and a lookup that finds no fresh entry always calls the function.
C6_FailureNotCached ==
    [][\A r \in Requests :
         /\ (req[r].pc = "compute" /\ req'[r].pc = "done")
            => (req'[r].out = "error" /\ caches' = caches)
         /\ (LookupStep(r) /\ ~FreshAt(caches[CacheOf(route)], req'[r].key, now))
            => req'[r].pc = "compute"]_vars

\* A request for a key whose earlier computation failed has called the
\* function again and got a value.
C6_Witness ==
    \E r \in Requests : req[r].retry /\ req[r].pc = "store"

IsPrefix(s, t) == Len(s) <= Len(t) /\ SubSeq(t, 1, Len(s)) = s

OkNorma(q) == q.pc = "done" /\ q.kind = "create_norma" /\ q.out = "ok"

\* C9 (history ledger): the history only grows at its end, by the instance
\* of a create_norma request that has had its to_dict() and .tree, cached or
\* not; every create_norma answered with its reference has appended exactly
\* one entry, and the history holds no entry but those the requests
\* appended; get_history returns the entries in the order of the list
\* whenever it answers with the list.
C9_HistoryLedger ==
    [][/\ IsPrefix(history, history')
       /\ history' # history
            => \E r \in Requests :
                  /\ req[r].pc = "post" /\ req'[r].pc = "answer"
                  /\ history' = Append(history, req[r].val)
       /\ \A r \in Requests : OkNorma(req'[r]) => req'[r].appended = 1
       /\ Len(history') = Cardinality({r \in Requests : req'[r].appended = 1})
       /\ \A r \in Requests :
            (req[r].pc = "idle" /\ req'[r].kind = "get_history" /\ req'[r].out = "ok")
            => req'[r].resp = [i \in 1..Len(history) |-> history[i].res]]_vars

\* The same cached instance is in the history twice.
C9_Witness ==
    \E i, j \in 1..Len(history) : i < j /\ history[i] = history[j]

\* The answers of the requests served before the run: body and urn.
SeedAnswers ==
    {[fields |-> Range(SeedBodies[i]), urn |-> get_urn(SeedValue(i))] :
        i \in 1..(MaxSize + 1)}

\* The create_norma requests answered with a reference so far: body and urn.
Answers ==
    SeedAnswers \cup {[fields |-> req[r].fields, urn |-> req[r].resp[2]] :
                         r \in {r2 \in Requests : OkNorma(req[r2])}}

\* C11 (determinism of resolution): the create_norma requests answered so
\* far that had the same field/value pairs in their bodies were all answered
\* with the same urn, whether their reference came from the cache, was built
\* again after expiry or eviction, or was built by two requests at once.
C11_Determinism ==
    \A p, q \in Answers : p.fields = q.fields => p.urn = q.urn

\* A request has been answered with a reference it built itself although
\* thread 1's reference for the same fields was answered before: no time has
\* passed, and the store of the request found the cache full of other keys,
\* so the earlier entry had been pushed out.
C11_Witness ==
    /\ now = 0
    /\ evicted # <<>>
    /\ Len(caches["norma"]) = MaxSize
    /\ \E r \in Requests :
          /\ OkNorma(req[r]) /\ ~req[r].hit
          /\ caches["norma"][MaxSize].value = req[r].val
          /\ caches["norma"][MaxSize].reads = 0
          /\ \E i \in 1..Len(history) :
                history[i].res = req[r].val.res /\ history[i].by # r
          /\ \E p \in SeedAnswers :
                p.fields = req[r].fields /\ p.urn = req[r].resp[2]

\* The request holds a value that its own call of the memoized function
\* returned.
Ran(q) == q.val # NoValue /\ ~q.hit

\* C14 (article-text cache key): as long as less than TTL has passed, the
\* text of one (urn, article) pair is extracted by at most one
\* extract_article request.
C14_ArticleKey ==
    \A r1, r2 \in Requests :
        (/\ r1 # r2 /\ now < TTL
         /\ req[r1].kind = "extract_article" /\ req[r2].kind = "extract_article"
         /\ Ran(req[r1]) /\ Ran(req[r2]))
        => req[r1].key # req[r2].key

\* The request is between its lookup and its answer.
InFlight(q) == q.pc \in {"compute", "store", "post", "answer"}

\* C15 (resolution cache key): the key of a create_norma request holds the
\* field/value pairs of its body in the order of the field names, so the keys
\* of two requests are equal exactly when their sets of pairs are equal, and
\* the cache never holds two entries for one key.
C15_KeyCanonical ==
    /\ \A r \in Requests :
          (InFlight(req[r]) /\ req[r].kind = "create_norma")
          => /\ Range(req[r].key) = Range(req[r].data)
             /\ \A i, j \in 1..Len(req[r].key) :
                   i < j => Rank(req[r].key[i][1]) < Rank(req[r].key[j][1])
    /\ \A r1, r2 \in Requests :
          (/\ InFlight(req[r1]) /\ InFlight(req[r2])
           /\ req[r1].kind = "create_norma" /\ req[r2].kind = "create_norma")
          => (req[r1].key = req[r2].key <=> Range(req[r1].data) = Range(req[r2].data))
    /\ \A i, j \in 1..Len(caches["norma"]) :
          caches["norma"][i].key = caches["norma"][j].key => i = j

\* Two requests with the same pairs in different orders: the second was
\* served from the entry the first stored, while an entry for the same pairs
\* plus a version date is in the cache beside it.
C15_Witness ==
    \E r1, r2 \in Requests :
        /\ req[r1].pc = "post" /\ req[r2].pc = "post"
        /\ req[r1].data # req[r2].data
        /\ req[r1].key = req[r2].key
        /\ ~req[r1].hit /\ req[r2].hit /\ req[r2].val.by = r1
        /\ \E i \in 1..Len(caches["norma"]) :
              Range(caches["norma"][i].key) =
                  Range(req[r1].key) \cup {<<"version_date", "2000">>}

\* The answer is an error payload carrying a message.
IsError(out, resp) ==
    out = "error" /\ Len(resp) = 2 /\ resp[1] = "error" /\ resp[2] # ""

\* The request is a create_norma that fails before its append in this step:
\* create_norma_instance raises (a missing field included), or to_dict() or
\* .tree raises.
FailsBeforeAppend(r) ==
    /\ req[r].kind = "create_norma" /\ req[r].pc \in {"compute", "post"}
    /\ req'[r].pc = "done"

\* C17 (history unchanged on failed resolution): a create_norma request that
\* fails before its append leaves the history as it was, has added nothing
\* to it and is answered with an error payload; the history changes only by
\* the append, at its end, of the reference of a request whose
\* create_norma_instance, to_dict() and .tree have returned.
C17_HistoryFrame ==
    [][/\ \A r \in Requests :
            FailsBeforeAppend(r) => /\ history' = history
                                    /\ IsError(req'[r].out, req'[r].resp)
                                    /\ req'[r].appended = 0
       /\ history' # history
            => \E r \in Requests :
                  /\ req[r].kind = "create_norma" /\ req[r].pc = "post"
                  /\ req[r].val # NoValue /\ req'[r].pc = "answer"
                  /\ history' = Append(history, req[r].val)]_vars

\* The history holds the reference of one request, and another request,
\* which had its reference, failed in to_dict() or .tree and was answered
\* with an error without adding to the history.
C17_Witness ==
    \E r1, r2 \in Requests :
        /\ OkNorma(req[r1]) /\ history = <<req[r1].val>>
        /\ req[r2].pc = "done" /\ req[r2].kind = "create_norma"
        /\ req[r2].val # NoValue /\ req[r2].appended = 0
        /\ IsError(req[r2].out, req[r2].resp)

\* The request computes or stores the text of the empty article designator.
EmptyArticle(q) ==
    /\ q.kind = "extract_article" /\ q.pc \in {"compute", "store"}
    /\ q.key[2] = ""

\* C18 (empty article designator): extract_article_text for the empty
\* designator cannot raise, since extract_html_article is not called: its only
\* outcome is the empty text, which the wrapper then stores under the key of
\* the request with a full time to live.
C18_EmptyArticle ==
    [][\A r \in Requests :
          (EmptyArticle(req[r]) /\ req'[r] # req[r])
          => IF req[r].pc = "compute"
             THEN /\ req'[r].pc = "store"
                  /\ req'[r].val = [by |-> r, res |-> <<"">>]
             ELSE /\ req'[r].pc = "post"
                  /\ HasKey(caches'["article"], req[r].key)
                  /\ Entry(caches'["article"], req[r].key).value = req[r].val
                  /\ Entry(caches'["article"], req[r].key).expires = now + TTL]_vars

\* A request for the empty designator was answered with the empty text that
\* an earlier request had computed and stored.
C18_Witness ==
    \E r1, r2 \in Requests :
        /\ r1 # r2
        /\ req[r1].kind = "extract_article" /\ req[r2].kind = "extract_article"
        /\ req[r1].pc = "done" /\ req[r2].pc = "done"
        /\ Len(req[r1].key) = 2 /\ req[r1].key[2] = "" /\ req[r2].key = req[r1].key
        /\ ~req[r1].hit /\ req[r1].out = "ok" /\ req[r1].resp = <<"">>
        /\ req[r2].hit /\ req[r2].val.by = r1 /\ req[r2].resp = <<"">>

\* C8 (LRU eviction): a cache never holds more than MaxSize entries; a store
\* pushes out at most one live entry, only when the cache is full, and every
\* entry that stays was used after the one pushed out.
C8_LruEviction ==
    /\ \A cn \in CacheNames : Len(caches[cn]) <= MaxSize
    /\ Len(evicted) <= 1
    /\ evicted # <<>> =>
         /\ Len(caches[CacheOf(route)]) = MaxSize
         /\ \A j \in 1..Len(caches[CacheOf(route)]) :
              evicted[1].used < caches[CacheOf(route)][j].used

\* An entry was pushed out although an entry inserted before it stays: the
\* older one was read in between.
C8_Witness ==
    /\ evicted # <<>>
    /\ \E j \in 1..Len(caches[CacheOf(route)]) :
         /\ caches[CacheOf(route)][j].ins < evicted[1].ins
         /\ caches[CacheOf(route)][j].reads >= 1

-----------------------------------------------------------------------------
(* Properties of export_pdf and the driver list.                            *)

\* C2 (resource exclusivity): at most one driver handle is live at any time.
C2_OneLiveHandle == Cardinality(live) <= 1

\* C3 (guaranteed release): a request calls close_driver exactly once, as the
\* last thing before it is answered, on every way out; once it is answered no
\* handle it created is live.
C3_GuaranteedRelease ==
    \A r \in Requests :
        /\ exp[r].pc # "done" => exp[r].closes = 0
        /\ exp[r].pc = "done" =>
             /\ exp[r].closes = 1
             /\ exp[r].made # 0 => exp[r].made \notin live

\* A request that set up a driver and whose render failed has been answered.
C3_Witness ==
    \E r \in Requests :
        /\ exp[r].pc = "done" /\ exp[r].why = "render"
        /\ exp[r].made # 0 /\ exp[r].closes = 1

\* C7 (idempotent export): a request that arrives after a successful export of
\* the same URN has been answered finds the file, takes no driver, does not
\* call extract_pdf and answers with the same URL; the two requests call
\* extract_pdf at most once.
C7_IdempotentExport ==
    \A r1, r2 \in Requests :
        (/\ r1 \in exp[r2].after
         /\ exp[r1].out = "ok"
         /\ exp[r1].urn = exp[r2].urn)
        => /\ exp[r1].renders + exp[r2].renders <= 1
           /\ exp[r2].drv = 0
           /\ exp[r2].out = "ok"
           /\ exp[r2].resp = exp[r1].resp

\* The first request rendered the file and the second one found it.
C7_Witness ==
    \E r1, r2 \in Requests :
        /\ r1 \in exp[r2].after
        /\ exp[r1].urn = exp[r2].urn
        /\ exp[r1].why = "rendered"
        /\ exp[r2].pc = "done" /\ exp[r2].why = "existing"

\* C10 (handle reuse): two export_pdf requests, one after the other, that
\* both render use the same handle.
C10_SequentialReuse ==
    \A r1, r2 \in Requests :
        (/\ r1 \in exp[r2].after
         /\ exp[r1].renders = 1
         /\ exp[r2].renders = 1)
        => exp[r1].drv = exp[r2].drv

\* C13 (no use after release): while extract_pdf runs with a request's
\* driver, that driver has not been closed, whatever the other requests do.
C13_NoUseAfterRelease ==
    \A r \in Requests : exp[r].pc = "rendering" => exp[r].drv \in live

\* The ways out of export_pdf on which the request holds no driver: the file
\* was there, the URN has no filename, no driver could be had.
NoHandleExits == {"existing", "invalid", "nodriver"}

\* C16 (release without a handle): when a request that holds no driver runs
\* its finally block, close_driver returns, the answer is the one decided
\* before, the driver list is empty afterwards, and with an empty list before
\* nothing is closed.
C16_ReleaseNoHandle ==
    [][\A r \in Requests :
          (/\ exp[r].pc = "finally" /\ exp'[r].pc = "done"
           /\ exp[r].why \in NoHandleExits)
          => /\ exp[r].drv = 0
             /\ exp'[r].closes = exp[r].closes + 1
             /\ exp'[r].out = exp[r].out /\ exp'[r].resp = exp[r].resp
             /\ drivers' = <<>>
             /\ drivers = <<>> => live' = live]_vars

\* A request that found the file on disk, and so held no driver, has been
\* answered with its success payload after its close_driver, and the driver
\* list is empty.
C16_Witness ==
    /\ drivers = <<>>
    /\ \E r \in Requests :
          /\ exp[r].pc = "done" /\ exp[r].why = "existing"
          /\ exp[r].closes = 1 /\ exp[r].drv = 0 /\ exp[r].out = "ok"

-----------------------------------------------------------------------------
(* Properties of the answers.                                               *)

\* C12 (structured error outcome): every answered request of the five
\* endpoints got either a success payload or an error payload with a message,
\* never an escaped exception; a success payload of a memoized endpoint goes
\* with a value its function returned, and a success payload of export_pdf
\* with a file that was there or was rendered and moved.
C12_StructuredOutcome ==
    /\ \A r \in Requests :
          req[r].pc = "done" =>
            \/ IsError(req[r].out, req[r].resp)
            \/ /\ req[r].out = "ok"
               /\ req[r].kind # "get_history" => req[r].val # NoValue
    /\ \A r \in Requests :
          exp[r].pc \in {"finally", "done"} =>
            \/ IsError(exp[r].out, exp[r].resp)
            \/ /\ exp[r].out = "ok"
               /\ exp[r].resp = url_for(urn_to_filename(exp[r].urn))
               /\ \/ exp[r].why = "existing" /\ exp[r].renders = 0
                  \/ exp[r].why = "rendered" /\ exp[r].renders = 1

\* A request whose handler could not read a field of the body, and one
\* whose memoized function raised, were both answered with an error payload.
C12_Witness ==
    \E r1, r2 \in Requests :
        /\ req[r1].pc = "done" /\ req[r1].key = <<>> /\ IsError(req[r1].out, req[r1].resp)
        /\ req[r1].kind \in {"extract_article", "brocardi_info"}
        /\ req[r2].pc = "done" /\ req[r2].key # <<>> /\ req[r2].val = NoValue
        /\ IsError(req[r2].out, req[r2].resp)

=============================================================================
